---- MODULE Spec2Model ----
(***************************************************************************)
(* Model of the four-stage SDG data pipeline:                              *)
(*   1_data_ingestion.py, 2_data_cleaning.py, 3_data_analysis.py,          *)
(*   4_visualizations.py.                                                  *)
(* The stages are scripts that share one document store.  Each store       *)
(* operation, remote fetch or file write of a script is a step.            *)
(*                                                                         *)
(* Cells.  A cell of a document or of a data frame is a record             *)
(*   [t, s, n]:  t = "null" (None / NaN), t = "str" (s is the string, a    *)
(*   sequence of one-character strings), t = "num" (n is the number in     *)
(*   QUARTERS, so that the median of two parsed values is exact).          *)
(***************************************************************************)
EXTENDS Integers, Sequences, FiniteSets, TLC

VARIABLES
    ev_data_raw,            \* store collection "ev_data_raw"
    nutrition_data_raw,     \* store collection "nutrition_data_raw"
    ev_data_cleaned,        \* store collection "ev_data_cleaned"
    nutrition_data_cleaned, \* store collection "nutrition_data_cleaned"
    remote_ev,              \* rows behind EV_API_URL
    remote_nutrition,       \* rows behind the CDC endpoint
    pc,                     \* position of each script
    ev_json_data,           \* ingestion: parsed EV payload
    nutrition_json_data,    \* ingestion: parsed nutrition payload
    outcome,                \* ingestion: how each dataset's try block ended, in this
                            \* run and (previous) in the ingestion run before it
    summary,                \* document counts printed by the last summary of ingestion / cleaning
    sample,                 \* ingestion summary: find_one sample per raw collection
    ev_df,                  \* cleaning: documents loaded from ev_data_raw
    ev_df_clean,            \* cleaning: cleaned EV frame
    nutrition_df,           \* cleaning: documents loaded from nutrition_data_raw
    nutrition_df_clean,     \* cleaning: cleaned nutrition frame
    pingFailed,             \* per script: the connectivity check of this run failed
    work                    \* per script: kinds of work done by this run (fetch, store, file)

vars == <<ev_data_raw, nutrition_data_raw, ev_data_cleaned, nutrition_data_cleaned,
          remote_ev, remote_nutrition, pc, ev_json_data, nutrition_json_data,
          outcome, summary, sample, ev_df, ev_df_clean, nutrition_df,
          nutrition_df_clean, pingFailed, work>>

storeVars == <<ev_data_raw, nutrition_data_raw, ev_data_cleaned, nutrition_data_cleaned>>
remoteVars == <<remote_ev, remote_nutrition>>
ingestVars == <<ev_json_data, nutrition_json_data, sample>>
cleanVars == <<ev_df, ev_df_clean, nutrition_df, nutrition_df_clean>>

----------------------------------------------------------------------------
(* Bounds *)

\* The record cap of 1_data_ingestion.py (2500 in the source), scaled down.
SAMPLE_SIZE == 2

\* Rows of the raw nutrition collection handed to the cleaning stage in SpecClean.
MaxCleanRows == 2

\* Rows of the raw EV collection handed to the cleaning stage in SpecClean: a
\* column can hold two values and a missing one.
MaxCleanEVRows == 3

\* The remote sources hold up to one row more than the cap.
MaxRemoteRows == SAMPLE_SIZE + 1

----------------------------------------------------------------------------
(* Cells and strings *)

Null == [t |-> "null", s |-> <<>>, n |-> 0]
Str(chars) == [t |-> "str", s |-> chars, n |-> 0]
Num(q) == [t |-> "num", s |-> <<>>, n |-> q]

\* pandas isnull(): None and NaN
IsNull(v) == v.t = "null"

Digits == <<"0", "1", "2", "3", "4", "5", "6", "7", "8", "9">>

IsDigitChar(c) == \E i \in 1..Len(Digits) : Digits[i] = c

DigitVal(c) == (CHOOSE i \in 1..Len(Digits) : Digits[i] = c) - 1

\* str.replace(ch, '')
Replace(chars, ch) == SelectSeq(chars, LAMBDA c : c # ch)

\* str.isdigit(): non-empty and every character a digit
IsDigit(chars) == Len(chars) > 0 /\ \A i \in 1..Len(chars) : IsDigitChar(chars[i])

RECURSIVE IntVal(_)
IntVal(chars) ==
    IF Len(chars) = 0 THEN 0
    ELSE 10 * IntVal(SubSeq(chars, 1, Len(chars) - 1)) + DigitVal(chars[Len(chars)])

\* Position of the first '.', or 0
DotPos(chars) ==
    IF \E i \in 1..Len(chars) : chars[i] = "."
    THEN CHOOSE i \in 1..Len(chars) : chars[i] = "." /\ \A j \in 1..(i - 1) : chars[j] # "."
    ELSE 0

\* Fraction digits in quarters; the model's strings carry the fractions "", "0", "5" only.
FracOK(chars) == chars \in {<<>>, <<"0">>, <<"5">>}
FracQuarters(chars) == IF chars = <<"5">> THEN 2 ELSE 0

\* An unsigned decimal literal: digits, optionally one '.', at least one digit.
UnsignedOK(chars) ==
    LET d == DotPos(chars)
        ip == IF d = 0 THEN chars ELSE SubSeq(chars, 1, d - 1)
        fp == IF d = 0 THEN <<>> ELSE SubSeq(chars, d + 1, Len(chars))
    IN  /\ (Len(ip) = 0 \/ IsDigit(ip))
        /\ FracOK(fp)
        /\ Len(ip) + Len(fp) > 0

UnsignedVal(chars) ==
    LET d == DotPos(chars)
        ip == IF d = 0 THEN chars ELSE SubSeq(chars, 1, d - 1)
        fp == IF d = 0 THEN <<>> ELSE SubSeq(chars, d + 1, Len(chars))
    IN  4 * IntVal(ip) + FracQuarters(fp)

\* pd.to_numeric(..., errors='coerce') on one cell: a number, or NaN when the
\* cell is missing or is not a numeric literal.
ToNumeric(v) ==
    IF v.t = "num" THEN v
    ELSE IF v.t = "null" THEN Null
    ELSE LET neg == Len(v.s) > 0 /\ v.s[1] = "-"
             body == IF neg THEN SubSeq(v.s, 2, Len(v.s)) ELSE v.s
         IN  IF UnsignedOK(body)
             THEN Num(IF neg THEN 0 - UnsignedVal(body) ELSE UnsignedVal(body))
             ELSE Null

----------------------------------------------------------------------------
(* Data-frame operations of 2_data_cleaning.py.  A frame is a sequence of  *)
(* rows; a row is a record of cells; a column is the sequence of one       *)
(* field's cells.                                                          *)

Column(frame, c) == [i \in 1..Len(frame) |-> frame[i][c]]

\* Series.dropna()
DropNa(col) == SelectSeq(col, LAMBDA v : ~IsNull(v))

RECURSIVE SortInts(_)
SortInts(xs) ==
    IF Len(xs) = 0 THEN <<>>
    ELSE LET m == CHOOSE i \in 1..Len(xs) : \A j \in 1..Len(xs) : xs[i] <= xs[j]
             rest == [k \in 1..(Len(xs) - 1) |-> IF k < m THEN xs[k] ELSE xs[k + 1]]
         IN  <<xs[m]>> \o SortInts(rest)

\* Series.median(): the median of the non-missing values, NaN when there is none.
Median(col) ==
    LET present == DropNa(col)
        sorted == SortInts([i \in 1..Len(present) |-> present[i].n])
        k == Len(sorted)
    IN  IF k = 0 THEN Null
        ELSE IF k % 2 = 1 THEN Num(sorted[(k + 1) \div 2])
        ELSE Num((sorted[k \div 2] + sorted[(k \div 2) + 1]) \div 2)

\* Series.fillna(value): a missing cell takes value; fillna(NaN) leaves it missing.
FillNa(col, value) == [i \in 1..Len(col) |-> IF IsNull(col[i]) THEN value ELSE col[i]]

Unknown == Str(<<"U", "n", "k", "n", "o", "w", "n">>)

\* Lines 91-93: the numeric test on the first non-missing value of a column.
\* A number's str() form is made of digits, '-' and '.', so a number passes
\* when it is truthy (not 0).
LooksNumeric(col) ==
    LET present == DropNa(col)
        sample_val == IF Len(present) > 0 THEN present[1] ELSE Null
    IN  \/ /\ sample_val.t = "str"
           /\ Len(sample_val.s) > 0
           /\ IsDigit(Replace(Replace(sample_val.s, "."), "-"))
        \/ /\ sample_val.t = "num"
           /\ sample_val.n # 0

\* pd.DataFrame(list(cursor)): a column of numbers (and missing cells) is a
\* numeric column from the start; any string makes it an object column.
NumericDtype(col) ==
    /\ \A i \in 1..Len(col) : col[i].t \in {"num", "null"}
    /\ \E i \in 1..Len(col) : col[i].t = "num"

\* Line 94 / 189: pd.to_numeric over a column.
ToNumericColumn(col) == [i \in 1..Len(col) |-> ToNumeric(col[i])]

\* Lines 103-111 / 204-212: fill one column.  numeric is the dtype test
\* (float64 / int64); a column without a missing value is left alone.  The
\* in-place fill of df[col] reaches the frame (pandas without copy-on-write).
FillColumn(col, numeric) ==
    IF \A i \in 1..Len(col) : ~IsNull(col[i]) THEN col
    ELSE IF numeric THEN FillNa(col, Median(col))
    ELSE FillNa(col, Unknown)

\* Lines 87-111 for one EV column: conversion, then fill.
CleanEVColumn(col) ==
    IF LooksNumeric(col) THEN FillColumn(ToNumericColumn(col), TRUE)
    ELSE FillColumn(col, NumericDtype(col))

\* Lines 187-212 for one of the fixed numeric nutrition columns.
CleanNumericColumn(col) == FillColumn(ToNumericColumn(col), TRUE)

\* A width that is never negative.
SubtractClamped(a, b) ==
    IF IsNull(a) \/ IsNull(b) THEN Null ELSE Num(IF a.n - b.n < 0 THEN 0 ELSE a.n - b.n)

\* Line 228: float subtraction; NaN when an operand is NaN.
Subtract(a, b) == IF IsNull(a) \/ IsNull(b) THEN Null ELSE Num(a.n - b.n)

\* Record ids that start at 0.
RecordIdsFromZero(len) == [i \in 1..len |-> i - 1]

\* Lines 119 / 233: range(1, len(df) + 1)
RecordIds(len) == [i \in 1..len |-> i]

\* A cleaning that drops the rows whose value is missing instead of filling it.
CleanEVDroppingMissing(df, now) ==
    LET kept == SelectSeq(df, LAMBDA d : ~IsNull(d.row.c1))
        c1 == CleanEVColumn(Column([i \in 1..Len(kept) |-> kept[i].row], "c1"))
        ids == RecordIds(Len(kept))
    IN  [i \in 1..Len(kept) |->
            [_record_id |-> ids[i], _processed_at |-> now, row |-> [c1 |-> c1[i]]]]

\* Lines 76-119: the cleaned EV frame of the loaded documents.
CleanEV(df, now) ==
    LET c1 == CleanEVColumn(Column([i \in 1..Len(df) |-> df[i].row], "c1"))
        ids == RecordIds(Len(df))
    IN  [i \in 1..Len(df) |->
            [_record_id |-> ids[i], _processed_at |-> now, row |-> [c1 |-> c1[i]]]]

\* Lines 177-233: the cleaned nutrition frame of the loaded documents.
CleanNutrition(df, now) ==
    LET rows == [i \in 1..Len(df) |-> df[i].row]
        low == CleanNumericColumn(Column(rows, "low_confidence_limit"))
        high == CleanNumericColumn(Column(rows, "high_confidence_limit"))
        ids == RecordIds(Len(df))
    IN  [i \in 1..Len(df) |->
            [_record_id |-> ids[i], _processed_at |-> now,
             row |-> [low_confidence_limit |-> low[i],
                      high_confidence_limit |-> high[i],
                      confidence_interval_width |-> Subtract(high[i], low[i])]]]

----------------------------------------------------------------------------
(* Documents and store operations *)

\* Timestamps (datetime.now()) are kept relative to the latest launch of the
\* script that writes them: stamped by that run, or by an earlier one.
Now == "this_run"
Earlier == "earlier_run"

Stages == {"ingest", "clean", "analysis", "viz"}
Collections == {"ev_data_raw", "nutrition_data_raw", "ev_data_cleaned", "nutrition_data_cleaned"}

NoEVRow == [c1 |-> Null]
NoNutritionRow == [low_confidence_limit |-> Null, high_confidence_limit |-> Null]

\* Lines 100-109 / 155-158 of 1_data_ingestion.py: a raw record.
RawDoc(row, now) ==
    [is_metadata |-> FALSE, _imported_at |-> now, sampled_records |-> 0, row |-> row]

\* Lines 70-83 / 165-175 of 1_data_ingestion.py: a metadata document.
MetadataDoc(norow, sampled, now) ==
    [is_metadata |-> TRUE, _imported_at |-> now, sampled_records |-> sampled, row |-> norow]

\* The filter {"is_metadata": {"$ne": True}}: a document without the field matches.
NotMetadata(d) == ~("is_metadata" \in DOMAIN d /\ d.is_metadata)

\* find({}): every document.
FindAll(coll) == coll

\* find({"is_metadata": {"$ne": True}})
FindNotMetadata(coll) == SelectSeq(coll, NotMetadata)

\* find_one({"is_metadata": {"$ne": True}}): the first match, or nothing
FindOneNotMetadata(coll) ==
    IF Len(FindNotMetadata(coll)) > 0 THEN <<FindNotMetadata(coll)[1]>> ELSE <<>>

\* count_documents({})
CountDocuments(coll) == Len(coll)

Min(a, b) == IF a <= b THEN a ELSE b

Digit(i) == Str(<<Digits[i + 1]>>)

\* The rows of the remote EV payload ("data" of rows.json); values repeat, as
\* they do in the registry.
RemoteEV(n) == [i \in 1..n |-> [c1 |-> Digit(1 + (i % 2))]]

\* The rows behind the CDC endpoint; the first one lacks its upper limit.
RemoteNutrition(n) ==
    [i \in 1..n |-> [low_confidence_limit |-> Digit(i),
                     high_confidence_limit |-> IF i = 1 THEN Null ELSE Digit(i + 1)]]

\* Line 134: the endpoint answers "$limit=N" with the first N rows at most.
ApiLimit(rows, limit) == SubSeq(rows, 1, Min(limit, Len(rows)))

\* Line 91: random.sample(rows, k), k distinct positions in any order.
RandomSamples(rows, k) ==
    {[i \in 1..k |-> rows[f[i]]] :
        f \in {g \in [1..k -> 1..Len(rows)] : \A a, b \in 1..k : a # b => g[a] # g[b]}}

\* No try block has ended yet, in this ingestion run or in one before it.
NoOutcome ==
    [ev |-> "none", nutrition |-> "none", previous |-> [ev |-> "none", nutrition |-> "none"]]

NoSummary == [ran |-> FALSE, counts |-> [c \in Collections |-> 0]]

Idle(st) == pc[st] \in {"idle", "done", "exited", "crashed"}

\* One script at a time (the single-operator batch assumption).
Serial == \A st \in Stages : Idle(st)

Did(st, kind) == work' = [work EXCEPT ![st] = @ \cup {kind}]

Goto(st, label) == pc' = [pc EXCEPT ![st] = label]

Coll(name) ==
    CASE name = "ev_data_raw" -> ev_data_raw
      [] name = "nutrition_data_raw" -> nutrition_data_raw
      [] name = "ev_data_cleaned" -> ev_data_cleaned
      [] name = "nutrition_data_cleaned" -> nutrition_data_cleaned

----------------------------------------------------------------------------
(* Initial states *)

InitLocals ==
    /\ pc = [st \in Stages |-> "idle"]
    /\ ev_json_data = <<>>
    /\ nutrition_json_data = <<>>
    /\ outcome = NoOutcome
    /\ summary = [st \in {"ingest", "clean"} |-> NoSummary]
    /\ sample = [c \in Collections |-> <<>>]
    /\ ev_df = <<>>
    /\ ev_df_clean = <<>>
    /\ nutrition_df = <<>>
    /\ nutrition_df_clean = <<>>
    /\ pingFailed = [st \in Stages |-> FALSE]
    /\ work = [st \in Stages |-> {}]

\* An empty store; the remote sources hold 0..MaxRemoteRows rows each.
Init ==
    /\ ev_data_raw = <<>>
    /\ nutrition_data_raw = <<>>
    /\ ev_data_cleaned = <<>>
    /\ nutrition_data_cleaned = <<>>
    /\ remote_ev \in {RemoteEV(n) : n \in 0..MaxRemoteRows}
    /\ remote_nutrition \in {RemoteNutrition(n) : n \in 0..MaxRemoteRows}
    /\ InitLocals

----------------------------------------------------------------------------
(* 1_data_ingestion.py *)

\* A script is launched.  A script that has ended leaves nothing behind but
\* the store: its last position and its variables are kept only until the
\* next launch, whichever script that launches.
Launch(st) ==
    /\ Idle(st)
    /\ pc' = [s \in Stages |-> IF s = st THEN "ping" ELSE IF Idle(s) THEN "idle" ELSE pc[s]]
    /\ pingFailed' = [s \in Stages |-> IF Idle(s) THEN FALSE ELSE pingFailed[s]]
    /\ work' = [s \in Stages |-> IF Idle(s) THEN {} ELSE work[s]]
    /\ summary' = [s \in {"ingest", "clean"} |-> IF Idle(s) THEN NoSummary ELSE summary[s]]
    /\ IF Idle("ingest")
       THEN /\ ev_json_data' = <<>>
            /\ nutrition_json_data' = <<>>
            /\ sample' = [c \in Collections |-> <<>>]
       ELSE UNCHANGED ingestVars
    /\ IF Idle("clean")
       THEN /\ ev_df' = <<>>
            /\ ev_df_clean' = <<>>
            /\ nutrition_df' = <<>>
            /\ nutrition_df_clean' = <<>>
       ELSE UNCHANGED cleanVars
    /\ UNCHANGED remoteVars

\* datetime.now() moves on: what an earlier run stamped is no longer stamped Now.
Aged(coll, stamp) == [i \in 1..Len(coll) |-> [coll[i] EXCEPT ![stamp] = Earlier]]

\* 1_data_ingestion.py is launched: lines 1-24.  previous is what is remembered
\* of the ingestion run before this one.
LaunchIngest(previous) ==
    /\ outcome' = [ev |-> "none", nutrition |-> "none", previous |-> previous]
    /\ Launch("ingest")
    /\ ev_data_raw' = Aged(ev_data_raw, "_imported_at")
    /\ nutrition_data_raw' = Aged(nutrition_data_raw, "_imported_at")
    /\ UNCHANGED <<ev_data_cleaned, nutrition_data_cleaned>>

BeginIngest == LaunchIngest(NoOutcome.previous)

StartIngest == Serial /\ BeginIngest

\* A failed ping that is printed and not acted on.
PingStepIgnored(st, ok, next) ==
    /\ pc[st] = "ping"
    /\ Goto(st, next)
    /\ pingFailed' = [pingFailed EXCEPT ![st] = ~ok]

\* Lines 27-33 (and the same lines of the other scripts): ping; exit() on failure.
PingStep(st, ok, next) ==
    /\ pc[st] = "ping"
    /\ IF ok
       THEN Goto(st, next) /\ UNCHANGED pingFailed
       ELSE Goto(st, "exited") /\ pingFailed' = [pingFailed EXCEPT ![st] = TRUE]

IngestPing ==
    /\ \E ok \in BOOLEAN : PingStep("ingest", ok, "ev_fetch")
    /\ UNCHANGED <<storeVars, remoteVars, ingestVars, outcome, summary, cleanVars, work>>

\* A handler that ends the script.
EVHandlerAborts(how) ==
    /\ outcome' = [outcome EXCEPT !.ev = how]
    /\ Goto("ingest", "crashed")

\* Lines 120-125: either handler ends the EV block; the script goes on at line 127.
\* how is "fetch_failed" for a request error, "failed" for a store call that
\* failed without effect, "interrupted" for a bulk insert that failed midway,
\* "empty_insert" for the error insert_many raises on an empty list.
EVHandler(how) ==
    /\ outcome' = [outcome EXCEPT !.ev = how]
    /\ Goto("ingest", "nut_fetch")

EVFailed == EVHandler("failed")

\* Line 120: the request, its status or its body failed.
EVFetchFailed == EVHandler("fetch_failed")

\* The EV collection is cleared before the payload is there.
IngestEVFetchAfterClear ==
    /\ pc["ingest"] = "ev_fetch"
    /\ Did("ingest", "fetch")
    /\ ev_data_raw' = <<>>
    /\ \/ /\ ev_json_data' = remote_ev
          /\ Goto("ingest", "ev_clear")
          /\ UNCHANGED outcome
       \/ /\ EVFetchFailed
          /\ UNCHANGED ev_json_data
    /\ UNCHANGED <<nutrition_data_raw, ev_data_cleaned, nutrition_data_cleaned, remoteVars,
                   nutrition_json_data, summary, sample, cleanVars, pingFailed>>

\* Lines 48-50: get, raise_for_status, json.
IngestEVFetch ==
    /\ pc["ingest"] = "ev_fetch"
    /\ Did("ingest", "fetch")
    /\ \/ /\ ev_json_data' = remote_ev
          /\ Goto("ingest", "ev_clear")
          /\ UNCHANGED outcome
       \/ /\ EVFetchFailed
          /\ UNCHANGED ev_json_data
    /\ UNCHANGED <<storeVars, remoteVars, nutrition_json_data, summary, sample,
                   cleanVars, pingFailed>>

\* The raw EV collection is not cleared.
IngestEVClearSkipped ==
    /\ pc["ingest"] = "ev_clear"
    /\ Did("ingest", "store_write")
    /\ Goto("ingest", "ev_meta")
    /\ UNCHANGED <<storeVars, remoteVars, ingestVars, outcome, summary, cleanVars, pingFailed>>

\* Line 59: delete_many({}).
IngestEVClear ==
    /\ pc["ingest"] = "ev_clear"
    /\ Did("ingest", "store_write")
    /\ \/ /\ ev_data_raw' = <<>>
          /\ Goto("ingest", "ev_meta")
          /\ UNCHANGED outcome
       \/ /\ EVFailed
          /\ UNCHANGED ev_data_raw
    /\ UNCHANGED <<nutrition_data_raw, ev_data_cleaned, nutrition_data_cleaned, remoteVars,
                   ev_json_data, nutrition_json_data, summary, sample, cleanVars,
                   pingFailed>>

\* Lines 70-84: the metadata document, sampled_records = SAMPLE_SIZE, insert_one.
IngestEVMetadata ==
    /\ pc["ingest"] = "ev_meta"
    /\ Did("ingest", "store_write")
    /\ \/ /\ ev_data_raw' = Append(ev_data_raw, MetadataDoc(NoEVRow, SAMPLE_SIZE, Now))
          /\ Goto("ingest", "ev_insert")
          /\ UNCHANGED outcome
       \/ /\ EVFailed
          /\ UNCHANGED ev_data_raw
    /\ UNCHANGED <<nutrition_data_raw, ev_data_cleaned, nutrition_data_cleaned, remoteVars,
                   ev_json_data, nutrition_json_data, summary, sample, cleanVars,
                   pingFailed>>

\* No sampling: every row is stored.
SampledRowsUncapped(ev_data_rows) == {ev_data_rows}

\* Lines 88-95: the rows to store.
SampledRows(ev_data_rows) ==
    IF Len(ev_data_rows) > SAMPLE_SIZE
    THEN RandomSamples(ev_data_rows, SAMPLE_SIZE)
    ELSE {ev_data_rows}

\* insert_many(documents): appends them (an empty list raises, see the callers).
InsertMany(coll, documents) == coll \o documents

\* insert_many(documents) that fails on the way: the documents are written in
\* order, so those before the failing one, one at least, stay in the collection.
PartialInserts(coll, documents) ==
    {coll \o SubSeq(documents, 1, k) : k \in 1..(Len(documents) - 1)}

\* Lines 88-118: sample, build the documents, insert_many.
IngestEVInsert ==
    /\ pc["ingest"] = "ev_insert"
    /\ Did("ingest", "store_write")
    /\ \E sampled_rows \in SampledRows(ev_json_data) :
          LET ev_documents == [i \in 1..Len(sampled_rows) |->
                                   RawDoc(sampled_rows[i], Now)]
          IN  \/ /\ Len(ev_documents) > 0
                 /\ ev_data_raw' = InsertMany(ev_data_raw, ev_documents)
                 /\ outcome' = [outcome EXCEPT !.ev = "ok"]
                 /\ Goto("ingest", "nut_fetch")
              \/ /\ Len(ev_documents) = 0
                 /\ EVHandler("empty_insert")
                 /\ UNCHANGED ev_data_raw
              \/ /\ EVFailed
                 /\ UNCHANGED ev_data_raw
    /\ UNCHANGED <<nutrition_data_raw, ev_data_cleaned, nutrition_data_cleaned, remoteVars,
                   ev_json_data, nutrition_json_data, summary, sample, cleanVars,
                   pingFailed>>

\* Lines 88-118 with an insert_many that fails after it wrote some of the
\* documents: the handler of line 123 ends the EV block.
IngestEVInsertInterrupted ==
    /\ pc["ingest"] = "ev_insert"
    /\ Did("ingest", "store_write")
    /\ \E sampled_rows \in SampledRows(ev_json_data) :
          LET ev_documents == [i \in 1..Len(sampled_rows) |->
                                   RawDoc(sampled_rows[i], Now)]
          IN  ev_data_raw' \in PartialInserts(ev_data_raw, ev_documents)
    /\ EVHandler("interrupted")
    /\ UNCHANGED <<nutrition_data_raw, ev_data_cleaned, nutrition_data_cleaned, remoteVars,
                   ev_json_data, nutrition_json_data, summary, sample, cleanVars,
                   pingFailed>>

\* Lines 181-186: either handler ends the nutrition block; the script goes on at line 188.
NutritionHandler(how) ==
    /\ outcome' = [outcome EXCEPT !.nutrition = how]
    /\ Goto("ingest", "summary")

NutritionFailed == NutritionHandler("failed")

\* Line 181: the request, its status or its body failed.
NutritionFetchFailed == NutritionHandler("fetch_failed")

\* Lines 134-139: get with $limit=SAMPLE_SIZE, raise_for_status, json.
IngestNutritionFetch ==
    /\ pc["ingest"] = "nut_fetch"
    /\ Did("ingest", "fetch")
    /\ \/ /\ nutrition_json_data' = ApiLimit(remote_nutrition, SAMPLE_SIZE)
          /\ Goto("ingest", "nut_clear")
          /\ UNCHANGED outcome
       \/ /\ NutritionFetchFailed
          /\ UNCHANGED nutrition_json_data
    /\ UNCHANGED <<storeVars, remoteVars, ev_json_data, summary, sample, cleanVars,
                   pingFailed>>

\* The nutrition collection is not cleared.
IngestNutritionClearSkipped ==
    /\ pc["ingest"] = "nut_clear"
    /\ Did("ingest", "store_write")
    /\ Goto("ingest", "nut_insert")
    /\ UNCHANGED <<storeVars, remoteVars, ingestVars, outcome, summary, cleanVars, pingFailed>>

\* Line 149: delete_many({}).
IngestNutritionClear ==
    /\ pc["ingest"] = "nut_clear"
    /\ Did("ingest", "store_write")
    /\ \/ /\ nutrition_data_raw' = <<>>
          /\ Goto("ingest", "nut_insert")
          /\ UNCHANGED outcome
       \/ /\ NutritionFailed
          /\ UNCHANGED nutrition_data_raw
    /\ UNCHANGED <<ev_data_raw, ev_data_cleaned, nutrition_data_cleaned, remoteVars,
                   ev_json_data, nutrition_json_data, summary, sample, cleanVars,
                   pingFailed>>

\* Lines 153-162: build the documents, insert_many.
IngestNutritionInsert ==
    /\ pc["ingest"] = "nut_insert"
    /\ Did("ingest", "store_write")
    /\ LET nutrition_documents == [i \in 1..Len(nutrition_json_data) |->
                                      RawDoc(nutrition_json_data[i], Now)]
       IN  \/ /\ Len(nutrition_documents) > 0
              /\ nutrition_data_raw' = InsertMany(nutrition_data_raw, nutrition_documents)
              /\ Goto("ingest", "nut_meta")
              /\ UNCHANGED outcome
           \/ /\ Len(nutrition_documents) = 0
              /\ NutritionHandler("empty_insert")
              /\ UNCHANGED nutrition_data_raw
           \/ /\ NutritionFailed
              /\ UNCHANGED nutrition_data_raw
    /\ UNCHANGED <<ev_data_raw, ev_data_cleaned, nutrition_data_cleaned, remoteVars,
                   ev_json_data, nutrition_json_data, summary, sample, cleanVars,
                   pingFailed>>

\* Lines 153-162 with an insert_many that fails after it wrote some of the
\* documents: the handler of line 184 ends the nutrition block.
IngestNutritionInsertInterrupted ==
    /\ pc["ingest"] = "nut_insert"
    /\ Did("ingest", "store_write")
    /\ LET nutrition_documents == [i \in 1..Len(nutrition_json_data) |->
                                      RawDoc(nutrition_json_data[i], Now)]
       IN  nutrition_data_raw' \in PartialInserts(nutrition_data_raw, nutrition_documents)
    /\ NutritionHandler("interrupted")
    /\ UNCHANGED <<ev_data_raw, ev_data_cleaned, nutrition_data_cleaned, remoteVars,
                   ev_json_data, nutrition_json_data, summary, sample, cleanVars,
                   pingFailed>>

\* Lines 165-176: the metadata document, sampled_records = len(nutrition_json_data).
IngestNutritionMetadata ==
    /\ pc["ingest"] = "nut_meta"
    /\ Did("ingest", "store_write")
    /\ \/ /\ nutrition_data_raw' =
                Append(nutrition_data_raw,
                       MetadataDoc(NoNutritionRow, Len(nutrition_json_data), Now))
          /\ outcome' = [outcome EXCEPT !.nutrition = "ok"]
          /\ Goto("ingest", "summary")
       \/ /\ NutritionFailed
          /\ UNCHANGED nutrition_data_raw
    /\ UNCHANGED <<ev_data_raw, ev_data_cleaned, nutrition_data_cleaned, remoteVars,
                   ev_json_data, nutrition_json_data, summary, sample, cleanVars,
                   pingFailed>>

\* Lines 196-197 / 260-261: count_documents({}) of every collection.
SummaryCounts == [ran |-> TRUE, counts |-> [c \in Collections |-> CountDocuments(Coll(c))]]

\* Lines 193-218: the summary (counts and one sample document per collection), close.
\* A store error here is not handled and ends the script.
IngestSummary ==
    /\ pc["ingest"] = "summary"
    /\ Did("ingest", "store_read")
    /\ \/ /\ summary' = [summary EXCEPT !["ingest"] = SummaryCounts]
          /\ sample' = [c \in Collections |-> FindOneNotMetadata(Coll(c))]
          /\ Goto("ingest", "done")
       \/ /\ Goto("ingest", "crashed")
          /\ UNCHANGED <<summary, sample>>
    /\ UNCHANGED <<storeVars, remoteVars, ev_json_data, nutrition_json_data, outcome,
                   cleanVars, pingFailed>>

Ingest ==
    \/ IngestPing
    \/ IngestEVFetch
    \/ IngestEVClear
    \/ IngestEVMetadata
    \/ IngestEVInsert
    \/ IngestNutritionFetch
    \/ IngestNutritionClear
    \/ IngestNutritionInsert
    \/ IngestNutritionMetadata
    \/ IngestSummary

\* The bulk inserts of ingestion that fail midway.
Interrupted ==
    \/ IngestEVInsertInterrupted
    \/ IngestNutritionInsertInterrupted

----------------------------------------------------------------------------
(* 2_data_cleaning.py *)

\* 2_data_cleaning.py is launched: lines 1-19.
BeginClean ==
    /\ Launch("clean")
    /\ ev_data_cleaned' = Aged(ev_data_cleaned, "_processed_at")
    /\ nutrition_data_cleaned' = Aged(nutrition_data_cleaned, "_processed_at")
    /\ UNCHANGED <<ev_data_raw, nutrition_data_raw, outcome>>

StartClean == Serial /\ BeginClean

CleanPing ==
    /\ \E ok \in BOOLEAN : PingStep("clean", ok, "ev_load")
    /\ UNCHANGED <<storeVars, remoteVars, ingestVars, outcome, summary, cleanVars, work>>

\* No handler surrounds the store calls of this script: an error ends it.
CleanCrash == Goto("clean", "crashed")

\* A load that waits until no ingestion run is under way.
CleanEVLoadGuarded ==
    /\ Idle("ingest")
    /\ pc["clean"] = "ev_load"
    /\ Did("clean", "store_read")
    /\ ev_df' = FindNotMetadata(ev_data_raw)
    /\ ev_df_clean' = CleanEV(FindNotMetadata(ev_data_raw), Now)
    /\ Goto("clean", "ev_clear")
    /\ UNCHANGED <<storeVars, remoteVars, ingestVars, outcome, summary, nutrition_df,
                   nutrition_df_clean, pingFailed>>

\* Lines 43-119: load the EV records and clean the frame.
CleanEVLoad ==
    /\ pc["clean"] = "ev_load"
    /\ Did("clean", "store_read")
    /\ \/ /\ ev_df' = FindNotMetadata(ev_data_raw)
          /\ ev_df_clean' = CleanEV(FindNotMetadata(ev_data_raw), Now)
          /\ Goto("clean", "ev_clear")
       \/ /\ CleanCrash
          /\ UNCHANGED <<ev_df, ev_df_clean>>
    /\ UNCHANGED <<storeVars, remoteVars, ingestVars, outcome, summary, nutrition_df,
                   nutrition_df_clean, pingFailed>>

\* The cleaned EV collection is not cleared.
CleanEVClearSkipped ==
    /\ pc["clean"] = "ev_clear"
    /\ Did("clean", "store_write")
    /\ Goto("clean", "ev_insert")
    /\ UNCHANGED <<storeVars, remoteVars, ingestVars, outcome, summary, cleanVars, pingFailed>>

\* Line 125: delete_many({}).
CleanEVClear ==
    /\ pc["clean"] = "ev_clear"
    /\ Did("clean", "store_write")
    /\ \/ /\ ev_data_cleaned' = <<>>
          /\ Goto("clean", "ev_insert")
       \/ /\ CleanCrash
          /\ UNCHANGED ev_data_cleaned
    /\ UNCHANGED <<ev_data_raw, nutrition_data_raw, nutrition_data_cleaned, remoteVars,
                   ingestVars, outcome, summary, cleanVars, pingFailed>>

\* Lines 128-129: to_dict('records'), insert_many; an empty list raises.
CleanEVInsert ==
    /\ pc["clean"] = "ev_insert"
    /\ Did("clean", "store_write")
    /\ LET ev_clean_records == ev_df_clean
       IN  \/ /\ Len(ev_clean_records) > 0
              /\ ev_data_cleaned' = InsertMany(ev_data_cleaned, ev_clean_records)
              /\ Goto("clean", "nut_load")
           \/ /\ Len(ev_clean_records) = 0
              /\ CleanCrash
              /\ UNCHANGED ev_data_cleaned
           \/ /\ CleanCrash
              /\ UNCHANGED ev_data_cleaned
    /\ UNCHANGED <<ev_data_raw, nutrition_data_raw, nutrition_data_cleaned, remoteVars,
                   ingestVars, outcome, summary, cleanVars, pingFailed>>

\* Lines 144-233: load the nutrition records and clean the frame.
CleanNutritionLoad ==
    /\ pc["clean"] = "nut_load"
    /\ Did("clean", "store_read")
    /\ \/ /\ nutrition_df' = FindNotMetadata(nutrition_data_raw)
          /\ nutrition_df_clean' =
                CleanNutrition(FindNotMetadata(nutrition_data_raw), Now)
          /\ Goto("clean", "nut_clear")
       \/ /\ CleanCrash
          /\ UNCHANGED <<nutrition_df, nutrition_df_clean>>
    /\ UNCHANGED <<storeVars, remoteVars, ingestVars, outcome, summary, ev_df, ev_df_clean,
                   pingFailed>>

\* The cleaned nutrition collection is not cleared.
CleanNutritionClearSkipped ==
    /\ pc["clean"] = "nut_clear"
    /\ Did("clean", "store_write")
    /\ Goto("clean", "nut_insert")
    /\ UNCHANGED <<storeVars, remoteVars, ingestVars, outcome, summary, cleanVars, pingFailed>>

\* Line 239: delete_many({}).
CleanNutritionClear ==
    /\ pc["clean"] = "nut_clear"
    /\ Did("clean", "store_write")
    /\ \/ /\ nutrition_data_cleaned' = <<>>
          /\ Goto("clean", "nut_insert")
       \/ /\ CleanCrash
          /\ UNCHANGED nutrition_data_cleaned
    /\ UNCHANGED <<ev_data_raw, nutrition_data_raw, ev_data_cleaned, remoteVars,
                   ingestVars, outcome, summary, cleanVars, pingFailed>>

\* Lines 242-243: to_dict('records'), insert_many; an empty list raises.
CleanNutritionInsert ==
    /\ pc["clean"] = "nut_insert"
    /\ Did("clean", "store_write")
    /\ LET nutrition_clean_records == nutrition_df_clean
       IN  \/ /\ Len(nutrition_clean_records) > 0
              /\ nutrition_data_cleaned' =
                    InsertMany(nutrition_data_cleaned, nutrition_clean_records)
              /\ Goto("clean", "summary")
           \/ /\ Len(nutrition_clean_records) = 0
              /\ CleanCrash
              /\ UNCHANGED nutrition_data_cleaned
           \/ /\ CleanCrash
              /\ UNCHANGED nutrition_data_cleaned
    /\ UNCHANGED <<ev_data_raw, nutrition_data_raw, ev_data_cleaned, remoteVars,
                   ingestVars, outcome, summary, cleanVars, pingFailed>>

\* Lines 256-263: the document count of every collection.
CleanSummary ==
    /\ pc["clean"] = "summary"
    /\ Did("clean", "store_read")
    /\ \/ /\ summary' = [summary EXCEPT !["clean"] = SummaryCounts]
          /\ Goto("clean", "export")
       \/ /\ CleanCrash
          /\ UNCHANGED summary
    /\ UNCHANGED <<storeVars, remoteVars, ingestVars, outcome, cleanVars, pingFailed>>

\* Lines 274-283: the two CSV files, close.
CleanExport ==
    /\ pc["clean"] = "export"
    /\ Did("clean", "file")
    /\ Goto("clean", "done")
    /\ UNCHANGED <<storeVars, remoteVars, ingestVars, outcome, summary, cleanVars, pingFailed>>

Clean ==
    \/ CleanPing
    \/ CleanEVLoad
    \/ CleanEVClear
    \/ CleanEVInsert
    \/ CleanNutritionLoad
    \/ CleanNutritionClear
    \/ CleanNutritionInsert
    \/ CleanSummary
    \/ CleanExport

----------------------------------------------------------------------------
(* 3_data_analysis.py and 4_visualizations.py: readers of the cleaned      *)
(* collections that write chart files.                                     *)

BeginReader(st) ==
    /\ Launch(st)
    /\ UNCHANGED <<storeVars, outcome>>

StartAnalysis == Serial /\ BeginReader("analysis")

StartViz == Serial /\ BeginReader("viz")

ReaderPing(st) ==
    /\ \E ok \in BOOLEAN : PingStep(st, ok, "mkdir")
    /\ UNCHANGED <<storeVars, remoteVars, ingestVars, outcome, summary, cleanVars, work>>

\* Lines 41-42 / 40-41: the output directory.
ReaderMkdir(st, dir) ==
    /\ pc[st] = "mkdir"
    /\ Did(st, "file")
    /\ Goto(st, "load")
    /\ UNCHANGED <<storeVars, remoteVars, ingestVars, outcome, summary, cleanVars, pingFailed>>

\* A reader that empties the collection it has read.
ReaderLoadClearing(st) ==
    /\ pc[st] = "load"
    /\ Did(st, "store_read")
    /\ Goto(st, "charts")
    /\ ev_data_cleaned' = <<>>
    /\ UNCHANGED <<ev_data_raw, nutrition_data_raw, nutrition_data_cleaned, remoteVars,
                   ingestVars, outcome, summary, cleanVars, pingFailed>>

\* 3: lines 55-56 and 122-123; 4: lines 49-50: find() on the two cleaned collections.
ReaderLoad(st) ==
    /\ pc[st] = "load"
    /\ Did(st, "store_read")
    /\ \/ Goto(st, "charts")
       \/ Goto(st, "crashed")
    /\ UNCHANGED <<storeVars, remoteVars, ingestVars, outcome, summary, cleanVars, pingFailed>>

\* The chart files; a rendering error is not handled and ends the script.
ReaderCharts(st, charts) ==
    /\ pc[st] = "charts"
    /\ \/ /\ Did(st, "file")
          /\ Goto(st, "done")
       \/ /\ Goto(st, "crashed")
          /\ UNCHANGED work
    /\ UNCHANGED <<storeVars, remoteVars, ingestVars, outcome, summary, cleanVars, pingFailed>>

Analysis ==
    \/ ReaderPing("analysis")
    \/ ReaderMkdir("analysis", "analysis_outputs")
    \/ ReaderLoad("analysis")
    \/ ReaderCharts("analysis", {"analysis_outputs/nutrition_correlation_heatmap.png"})

Viz ==
    \/ ReaderPing("viz")
    \/ ReaderMkdir("viz", "visualizations")
    \/ ReaderLoad("viz")
    \/ ReaderCharts("viz", {"visualizations/health_categories_pie.png"})

----------------------------------------------------------------------------
(* Specifications *)

Next ==
    \/ StartIngest
    \/ Ingest
    \/ StartClean
    \/ Clean
    \/ StartAnalysis
    \/ Analysis
    \/ StartViz
    \/ Viz

Spec == Init /\ [][Next]_vars

----------------------------------------------------------------------------
(* SpecIngest: ingestion run after ingestion run, each run remembering how  *)
(* the run before it ended, with bulk inserts that may fail midway.        *)

RerunIngest ==
    /\ Serial
    /\ LaunchIngest([ev |-> outcome.ev, nutrition |-> outcome.nutrition])

NextIngest ==
    \/ RerunIngest
    \/ Ingest
    \/ Interrupted

SpecIngest == Init /\ [][NextIngest]_vars

----------------------------------------------------------------------------
(* SpecInterleaved: one ingestion run and one cleaning run, launched on a   *)
(* store that an earlier ingestion run filled, their steps in any order.   *)

\* Both scripts are at their connectivity check; the raw collections hold what
\* an earlier ingestion of the same sources stored.
InitInterleaved ==
    /\ remote_ev \in {RemoteEV(n) : n \in 1..MaxRemoteRows}
    /\ remote_nutrition \in {RemoteNutrition(n) : n \in 1..MaxRemoteRows}
    /\ ev_data_raw \in
          {Aged(<<MetadataDoc(NoEVRow, SAMPLE_SIZE, Now)>>
                    \o [i \in 1..Len(rows) |-> RawDoc(rows[i], Now)], "_imported_at") :
              rows \in SampledRows(remote_ev)}
    /\ nutrition_data_raw =
          LET rows == ApiLimit(remote_nutrition, SAMPLE_SIZE)
          IN  Aged([i \in 1..Len(rows) |-> RawDoc(rows[i], Now)]
                       \o <<MetadataDoc(NoNutritionRow, Len(rows), Now)>>, "_imported_at")
    /\ ev_data_cleaned = <<>>
    /\ nutrition_data_cleaned = <<>>
    /\ pc = [st \in Stages |-> IF st \in {"ingest", "clean"} THEN "ping" ELSE "idle"]
    /\ ev_json_data = <<>>
    /\ nutrition_json_data = <<>>
    /\ outcome = NoOutcome
    /\ summary = [st \in {"ingest", "clean"} |-> NoSummary]
    /\ sample = [c \in Collections |-> <<>>]
    /\ ev_df = <<>>
    /\ ev_df_clean = <<>>
    /\ nutrition_df = <<>>
    /\ nutrition_df_clean = <<>>
    /\ pingFailed = [st \in Stages |-> FALSE]
    /\ work = [st \in Stages |-> {}]

NextInterleaved ==
    \/ Ingest
    \/ Interrupted
    \/ Clean

SpecInterleaved == InitInterleaved /\ [][NextInterleaved]_vars

----------------------------------------------------------------------------
(* SpecClean: the cleaning stage over every raw collection of up to        *)
(* MaxCleanEVRows / MaxCleanRows records whose cells come from EVCells /   *)
(* NutritionCells.                                                         *)
(* The two datasets are cleaned independently of each other, so one of     *)
(* them ranges while the other holds one plain record.                     *)

\* Values of an EV column: missing, numeric literals, text, the empty string,
\* and the JSON numbers 0 and 2.
EVCells ==
    {Null, Str(<<"7">>), Str(<<"-", "3">>), Str(<<"1", ".", "5">>), Str(<<"1", "-", "2">>),
     Str(<<"a", "b">>), Str(<<>>), Num(0), Num(8)}

NutritionCells == {Null, Str(<<"1">>), Str(<<"5">>), Str(<<"x">>)}

EVRows == {[c1 |-> v] : v \in EVCells}

NutritionRows ==
    {[low_confidence_limit |-> l, high_confidence_limit |-> h] :
        l \in NutritionCells, h \in NutritionCells}

PlainEVRow == [c1 |-> Str(<<"7">>)]

PlainNutritionRow ==
    [low_confidence_limit |-> Str(<<"1">>), high_confidence_limit |-> Str(<<"5">>)]

SeqsUpTo(S, n) == UNION {[1..k -> S] : k \in 0..n}

\* What a successful ingestion of the given rows leaves in the raw collections.
RawEVOf(rows) ==
    <<MetadataDoc(NoEVRow, SAMPLE_SIZE, Now)>> \o [i \in 1..Len(rows) |-> RawDoc(rows[i], Now)]

RawNutritionOf(rows) ==
    [i \in 1..Len(rows) |-> RawDoc(rows[i], Now)]
        \o <<MetadataDoc(NoNutritionRow, Len(rows), Now)>>

InitClean ==
    /\ \/ /\ ev_data_raw \in {RawEVOf(rows) : rows \in SeqsUpTo(EVRows, MaxCleanEVRows)}
          /\ nutrition_data_raw = RawNutritionOf(<<PlainNutritionRow>>)
       \/ /\ ev_data_raw = RawEVOf(<<PlainEVRow>>)
          /\ nutrition_data_raw \in
                {RawNutritionOf(rows) : rows \in SeqsUpTo(NutritionRows, MaxCleanRows)}
    /\ ev_data_cleaned = <<>>
    /\ nutrition_data_cleaned = <<>>
    /\ remote_ev = <<>>
    /\ remote_nutrition = <<>>
    /\ InitLocals

NextClean ==
    \/ StartClean
    \/ Clean

SpecClean == InitClean /\ [][NextClean]_vars

----------------------------------------------------------------------------
(* Claims *)

Cells(doc) == {doc.row[c] : c \in DOMAIN doc.row}

HasMissing(coll) == \E i \in 1..Len(coll) : \E v \in Cells(coll[i]) : IsNull(v)

\* C1: after the cleaning stage has completed, no record of ev_data_cleaned or
\* nutrition_data_cleaned has a missing value in any column, whatever the raw
\* collections held.
C1_NoMissingAfterCleaning ==
    pc["clean"] = "done" => ~HasMissing(ev_data_cleaned) /\ ~HasMissing(nutrition_data_cleaned)

RecordIdsOf(coll) == {coll[i]._record_id : i \in 1..Len(coll)}

DenseIds(coll) ==
    /\ RecordIdsOf(coll) = 1..Len(coll)
    /\ \A i, j \in 1..Len(coll) : coll[i]._record_id = coll[j]._record_id => i = j

\* C2: the _record_id values of a cleaned collection of N records are exactly
\* 1..N, each once, for the EV and for the nutrition dataset.
C2_RecordIdsDense == DenseIds(ev_data_cleaned) /\ DenseIds(nutrition_data_cleaned)

C2_Witness ==
    /\ pc["clean"] = "done"
    /\ Len(ev_data_cleaned) >= 2
    /\ Len(nutrition_data_cleaned) >= 2

\* The nutrition records of this cleaning run are in the cleaned collection.
NutritionStored == pc["clean"] \in {"summary", "export", "done"}

RawPresent(i) ==
    /\ ~IsNull(nutrition_df[i].row.low_confidence_limit)
    /\ ~IsNull(nutrition_df[i].row.high_confidence_limit)

WidthIsDifference(r) ==
    IF r.high_confidence_limit.t = "num" /\ r.low_confidence_limit.t = "num"
    THEN /\ r.confidence_interval_width.t = "num"
         /\ r.confidence_interval_width.n = r.high_confidence_limit.n - r.low_confidence_limit.n
    ELSE r.confidence_interval_width.t = "null"

\* The width of record i against the raw values, where both are numeric literals.
WidthIsRawDifference(i) ==
    LET high == ToNumeric(nutrition_df[i].row.high_confidence_limit)
        low == ToNumeric(nutrition_df[i].row.low_confidence_limit)
        width == nutrition_data_cleaned[i].row.confidence_interval_width
    IN  (high.t = "num" /\ low.t = "num") => (width.t = "num" /\ width.n = high.n - low.n)

\* C3: for every cleaned nutrition record whose raw high_confidence_limit and
\* low_confidence_limit were both present, confidence_interval_width is the
\* difference high_confidence_limit - low_confidence_limit of the record (and of
\* the raw values, where they are numbers), a negative difference included; it
\* is NaN only when an operand is NaN.
C3_WidthIsHighMinusLow ==
    NutritionStored =>
        \A i \in 1..Len(nutrition_data_cleaned) :
            RawPresent(i) =>
                /\ WidthIsDifference(nutrition_data_cleaned[i].row)
                /\ WidthIsRawDifference(i)

C3_Witness ==
    /\ NutritionStored
    /\ \E i \in 1..Len(nutrition_data_cleaned) :
          /\ RawPresent(i)
          /\ nutrition_data_cleaned[i].row.confidence_interval_width.t = "num"
          /\ nutrition_data_cleaned[i].row.confidence_interval_width.n < 0

\* The ingestion run is past its EV block (lines 47-125).
EVBlockEnded ==
    pc["ingest"] \in {"nut_fetch", "nut_clear", "nut_insert", "nut_meta", "summary", "done",
                      "crashed"}

\* The ingestion run is past its nutrition block (lines 136-186).
NutritionBlockEnded == pc["ingest"] \in {"summary", "done", "crashed"}

Rows(docs) == [i \in 1..Len(docs) |-> docs[i].row]

\* C4 (as claimed): whenever the EV payload was downloaded and the store took every
\* write, a payload of at most SAMPLE_SIZE rows, the empty payload included, ends
\* without an error and with its rows stored once each, in order, unsampled; a
\* longer payload ends with exactly SAMPLE_SIZE records.
C4_SmallPayloadStoredWithoutError ==
    (EVBlockEnded /\ outcome.ev \in {"ok", "empty_insert"}) =>
        /\ outcome.ev = "ok"
        /\ IF Len(remote_ev) <= SAMPLE_SIZE
           THEN Rows(FindNotMetadata(ev_data_raw)) = remote_ev
           ELSE Len(FindNotMetadata(ev_data_raw)) = SAMPLE_SIZE

\* C5: after a successful nutrition ingestion with limit N = SAMPLE_SIZE, the raw
\* nutrition collection holds, the metadata document aside, exactly N documents,
\* or exactly as many as the source has when it has fewer; never more than N.
C5_NutritionCountIsLimit ==
    (NutritionBlockEnded /\ outcome.nutrition = "ok") =>
        /\ Len(FindNotMetadata(nutrition_data_raw)) = Min(SAMPLE_SIZE, Len(remote_nutrition))
        /\ Len(FindNotMetadata(nutrition_data_raw)) <= SAMPLE_SIZE

C5_Witness ==
    /\ pc["ingest"] = "done"
    /\ outcome.nutrition = "ok"
    /\ Len(remote_nutrition) > SAMPLE_SIZE
    /\ Len(FindNotMetadata(nutrition_data_raw)) = SAMPLE_SIZE
    /\ \E i \in 1..Len(nutrition_data_raw) : nutrition_data_raw[i].is_metadata

RawCollections == {"ev_data_raw", "nutrition_data_raw"}

NoMetadataIn(docs) == \A i \in 1..Len(docs) : ~docs[i].is_metadata

\* Iterations over a raw collection: the frames of cleaning, the sample of the
\* ingestion summary.
IterationsSkipMetadata ==
    /\ NoMetadataIn(ev_df)
    /\ NoMetadataIn(nutrition_df)
    /\ \A c \in RawCollections : NoMetadataIn(sample[c])

\* C6 (as claimed): a metadata document is in no count and in no iteration over a
\* raw collection: the counts of the two summaries are the numbers of records,
\* and the frames and samples hold no metadata document.
C6_MetadataInNoCountOrIteration ==
    /\ IterationsSkipMetadata
    /\ \A st \in {"ingest", "clean"} : \A c \in RawCollections :
          summary[st].ran => summary[st].counts[c] = Len(FindNotMetadata(Coll(c)))

\* C6 (amended): a metadata document is in no iteration over a raw collection
\* (the frames cleaning loads, the sample document of the ingestion summary),
\* but the document counts of the two summaries include it.
C6_MetadataInNoIterationButCounted ==
    /\ IterationsSkipMetadata
    /\ \A st \in {"ingest", "clean"} : \A c \in RawCollections :
          summary[st].ran =>
              summary[st].counts[c] =
                  Len(FindNotMetadata(Coll(c)))
                      + Cardinality({i \in 1..Len(Coll(c)) : Coll(c)[i].is_metadata})

C6_Witness ==
    /\ pc["clean"] = "done"
    /\ summary["clean"].ran
    /\ Len(ev_df) >= 1
    /\ Len(nutrition_df) >= 1
    /\ summary["clean"].counts["ev_data_raw"] = Len(ev_df) + 1
    /\ summary["clean"].counts["nutrition_data_raw"] = Len(nutrition_df) + 1

\* The EV records of this cleaning run are in the cleaned collection.
EVStored == pc["clean"] \in {"nut_load", "nut_clear", "nut_insert", "summary", "export", "done"}

\* C7 (as claimed): after ingestion followed by cleaning, run any number of times
\* on the same remote data, the row count of a cleaned collection is the cap.
C7_CleanedCountIsCap ==
    /\ (EVStored /\ outcome.ev = "ok") => Len(ev_data_cleaned) = SAMPLE_SIZE
    /\ (NutritionStored /\ outcome.nutrition = "ok") =>
           Len(nutrition_data_cleaned) = SAMPLE_SIZE

\* C7 (amended): after ingestion followed by cleaning, run any number of times on
\* the same remote data, the row count of the cleaned collection of a dataset
\* that was ingested and cleaned is the smaller of the cap and the number of
\* rows of the source, whatever the collections held before.
C7_CleanedCountIsMinOfCapAndSource ==
    /\ (EVStored /\ outcome.ev = "ok") =>
           Len(ev_data_cleaned) = Min(SAMPLE_SIZE, Len(remote_ev))
    /\ (NutritionStored /\ outcome.nutrition = "ok") =>
           Len(nutrition_data_cleaned) = Min(SAMPLE_SIZE, Len(remote_nutrition))

\* A rerun: the EV section has replaced the records of the run before, which the
\* nutrition section has yet to do.
C7_Witness ==
    /\ pc["clean"] = "nut_load"
    /\ outcome.ev = "ok"
    /\ Len(remote_ev) > SAMPLE_SIZE
    /\ Len(ev_data_cleaned) = SAMPLE_SIZE
    /\ \E i \in 1..Len(nutrition_data_cleaned) :
          nutrition_data_cleaned[i]._processed_at = Earlier

\* C8: a failure while ingesting one dataset is handled and leaves the other
\* dataset's ingestion to be attempted and completed in the same run: once the
\* EV block has failed the script is in the nutrition block or past it, and
\* what the EV block stored stays stored whatever the nutrition block does.
C8_FailureLeavesOtherDataset ==
    /\ (pc["ingest"] # "idle"
            /\ outcome.ev \in {"fetch_failed", "failed", "interrupted", "empty_insert"}) =>
           \/ pc["ingest"] \in {"nut_fetch", "nut_clear", "nut_insert", "nut_meta"}
           \/ NutritionBlockEnded /\ outcome.nutrition # "none"
    /\ (NutritionBlockEnded /\ outcome.ev = "ok") =>
           Len(FindNotMetadata(ev_data_raw)) = Min(SAMPLE_SIZE, Len(remote_ev))

C8_Witness ==
    /\ pc["ingest"] = "done"
    /\ outcome.ev = "failed"
    /\ outcome.nutrition = "ok"
    /\ Len(FindNotMetadata(nutrition_data_raw)) >= 1

\* C9: in every stage a failed connectivity check ends the process before any
\* work: no store read or write, no remote fetch, no file.
C9_PingFailureStopsBeforeWork ==
    \A st \in Stages : pingFailed[st] => pc[st] = "exited" /\ work[st] = {}

C9_Witness ==
    /\ pingFailed["clean"]
    /\ pc["clean"] = "exited"
    /\ Len(FindNotMetadata(ev_data_raw)) >= 1

\* C10: once a cleaning run has stored a dataset, the cleaned collection holds
\* exactly the records that run produced and none of an earlier run, so its
\* size does not grow from run to run.
C10_CleanedIsReplaced ==
    /\ EVStored =>
           /\ ev_data_cleaned = ev_df_clean
           /\ \A i \in 1..Len(ev_data_cleaned) : ev_data_cleaned[i]._processed_at = Now
    /\ NutritionStored =>
           /\ nutrition_data_cleaned = nutrition_df_clean
           /\ \A i \in 1..Len(nutrition_data_cleaned) :
                 nutrition_data_cleaned[i]._processed_at = Now

\* A rerun: the EV collection is replaced while the nutrition collection still
\* holds the records of the run before.
C10_Witness ==
    /\ pc["clean"] = "nut_load"
    /\ Len(ev_data_cleaned) >= 1
    /\ \A i \in 1..Len(ev_data_cleaned) : ev_data_cleaned[i]._processed_at = Now
    /\ \E i \in 1..Len(nutrition_data_cleaned) :
          nutrition_data_cleaned[i]._processed_at = Earlier

\* C11 (as claimed): in every stage an error other than a failed connectivity
\* check is caught, so that no stage is ended by an error before its end: an
\* error in one dataset leaves the other dataset to be processed.
C11_NoStageEndedByAnError == \A st \in Stages : pc[st] # "crashed"

\* A step of script st: it is launched or moves on.
StepOf(st) == pc'[st] # pc[st] /\ pc'[st] # "idle"

\* C12: data flows one way through the store: a raw collection changes only in
\* a step of ingestion and a cleaned collection only in a step of cleaning, so
\* cleaning leaves the raw collections unchanged, and analysis and
\* visualization leave every collection unchanged.
C12_OneWayDataFlow ==
    [][/\ (<<ev_data_raw, nutrition_data_raw>>' # <<ev_data_raw, nutrition_data_raw>>) =>
              StepOf("ingest")
       /\ (<<ev_data_cleaned, nutrition_data_cleaned>>'
               # <<ev_data_cleaned, nutrition_data_cleaned>>) =>
              StepOf("clean")]_vars

\* Visualization has run to its end over a filled store.
C12_Witness ==
    /\ pc["viz"] = "done"
    /\ "file" \in work["viz"]
    /\ Len(FindNotMetadata(ev_data_raw)) >= 1
    /\ Len(FindNotMetadata(nutrition_data_raw)) >= 1
    /\ Len(ev_data_cleaned) >= 1
    /\ Len(nutrition_data_cleaned) >= 1

MetadataDocs(coll) == SelectSeq(coll, LAMBDA d : d.is_metadata)

\* Every document of the collection was written by the current ingestion run.
WrittenByThisRun(coll) == \A i \in 1..Len(coll) : coll[i]._imported_at = Now

\* C13: after the ingestion of a dataset has succeeded in a run, the dataset's
\* raw collection holds exactly one metadata document, and every document in
\* it was written by that run: the earlier contents, an earlier metadata
\* document included, are gone.
C13_OneMetadataAndOnlyThisRun ==
    /\ (EVBlockEnded /\ outcome.ev = "ok") =>
           /\ Len(MetadataDocs(ev_data_raw)) = 1
           /\ WrittenByThisRun(ev_data_raw)
    /\ (NutritionBlockEnded /\ outcome.nutrition = "ok") =>
           /\ Len(MetadataDocs(nutrition_data_raw)) = 1
           /\ WrittenByThisRun(nutrition_data_raw)

\* A rerun over a filled store: the EV collection is replaced, the nutrition
\* collection still holds what the run before stored.
C13_Witness ==
    /\ pc["ingest"] = "nut_clear"
    /\ outcome.ev = "ok"
    /\ outcome.previous.ev = "ok"
    /\ Len(FindNotMetadata(ev_data_raw)) >= 2
    /\ Len(MetadataDocs(nutrition_data_raw)) = 1
    /\ \A i \in 1..Len(nutrition_data_raw) : nutrition_data_raw[i]._imported_at = Earlier

\* C14 (as claimed): sampled_records of a raw collection's metadata document is
\* the number of records the same ingestion run stored in the collection, for
\* both datasets and every source size.
C14_SampledRecordsIsStoredCount ==
    /\ (EVBlockEnded /\ outcome.ev = "ok") =>
           \A i \in 1..Len(ev_data_raw) :
               ev_data_raw[i].is_metadata =>
                   ev_data_raw[i].sampled_records = Len(FindNotMetadata(ev_data_raw))
    /\ (NutritionBlockEnded /\ outcome.nutrition = "ok") =>
           \A i \in 1..Len(nutrition_data_raw) :
               nutrition_data_raw[i].is_metadata =>
                   nutrition_data_raw[i].sampled_records =
                       Len(FindNotMetadata(nutrition_data_raw))

\* What a successful ingestion run leaves in the raw collections when it
\* starts from empty ones.
FromEmptyEV == {RawEVOf(rows) : rows \in SampledRows(remote_ev)}

FromEmptyNutrition == RawNutritionOf(ApiLimit(remote_nutrition, SAMPLE_SIZE))

\* The run before this one cleared the collection, or was about to, and did not
\* finish its inserts.
FailedMidway(how) == how \in {"failed", "interrupted"}

\* C17: when an ingestion run failed between clearing a raw collection and
\* finishing its inserts, the next run that ingests the dataset successfully
\* leaves the collection as a successful run from an empty collection does:
\* that run's records and one metadata document, nothing of the failed run.
C17_RerunAfterFailureIsAsFromEmpty ==
    /\ (EVBlockEnded /\ outcome.ev = "ok" /\ FailedMidway(outcome.previous.ev)) =>
           ev_data_raw \in FromEmptyEV
    /\ (NutritionBlockEnded /\ outcome.nutrition = "ok"
            /\ FailedMidway(outcome.previous.nutrition)) =>
           nutrition_data_raw = FromEmptyNutrition

\* Both bulk inserts of the run before failed midway and left some of their
\* documents; this run has succeeded for both datasets.
C17_Witness ==
    /\ pc["ingest"] = "done"
    /\ outcome.previous.ev = "interrupted"
    /\ outcome.previous.nutrition = "interrupted"
    /\ outcome.ev = "ok"
    /\ outcome.nutrition = "ok"
    /\ ev_data_raw \in FromEmptyEV
    /\ nutrition_data_raw = FromEmptyNutrition

\* The ingestion run is before the end of its EV fetch.
BeforeEVFetched == pc["ingest"] \in {"ping", "ev_fetch"}

\* The ingestion run is before the end of its nutrition fetch.
BeforeNutritionFetched ==
    pc["ingest"] \in {"ping", "ev_fetch", "ev_clear", "ev_meta", "ev_insert", "nut_fetch"}

\* C20: when the fetch of a dataset fails, the run leaves the dataset's raw
\* collection as it was before the run: no step of the run changes the
\* collection before the payload is downloaded and parsed, and none does after
\* the fetch has failed.
C20_FetchFailureLeavesCollection ==
    [][/\ (BeforeEVFetched \/ (~Idle("ingest") /\ outcome.ev = "fetch_failed")) =>
              ev_data_raw' = ev_data_raw
       /\ (BeforeNutritionFetched
               \/ (~Idle("ingest") /\ outcome.nutrition = "fetch_failed")) =>
              nutrition_data_raw' = nutrition_data_raw]_vars

\* A rerun whose EV fetch failed: the EV collection still holds what an earlier
\* run stored, the nutrition collection was replaced.
C20_Witness ==
    /\ pc["ingest"] = "done"
    /\ outcome.ev = "fetch_failed"
    /\ outcome.nutrition = "ok"
    /\ Len(FindNotMetadata(ev_data_raw)) >= 1
    /\ Len(MetadataDocs(ev_data_raw)) = 1
    /\ \A i \in 1..Len(ev_data_raw) : ev_data_raw[i]._imported_at = Earlier

\* The cleaning run has loaded and cleaned its EV frame.
EVLoaded ==
    pc["clean"] \in {"ev_clear", "ev_insert", "nut_load", "nut_clear", "nut_insert", "summary",
                     "export", "done"}

\* The cleaning run has loaded and cleaned its nutrition frame.
NutritionLoaded == pc["clean"] \in {"nut_clear", "nut_insert", "summary", "export", "done"}

\* The string form of the first non-missing value of the column, '.' and '-'
\* removed, is made of digits only (a number's string form always is).
FirstValueAllDigits(col) ==
    LET present == DropNa(col)
    IN  /\ Len(present) > 0
        /\ \/ present[1].t = "num"
           \/ /\ present[1].t = "str"
              /\ IsDigit(Replace(Replace(present[1].s, "."), "-"))

\* C15 (as claimed): a column of the EV frame is coerced to numeric exactly when
\* the string form of its first non-missing value, '.' and '-' removed, is made
\* of digits only, whatever that first value (0 and 0.0 included) and whatever
\* the other values; the cleaned column is the coerced and filled column then,
\* and the filled column as loaded otherwise.
C15_CoercedIffFirstValueAllDigits ==
    EVLoaded =>
        LET col == Column(Rows(ev_df), "c1")
        IN  /\ LooksNumeric(col) <=> FirstValueAllDigits(col)
            /\ Column(Rows(ev_df_clean), "c1") =
                   IF FirstValueAllDigits(col)
                   THEN FillColumn(ToNumericColumn(col), TRUE)
                   ELSE FillColumn(col, NumericDtype(col))

\* The numbers of the non-missing cells of a numeric column.
PresentValues(col) == [i \in 1..Len(DropNa(col)) |-> DropNa(col)[i].n]

\* The r-th smallest of the numbers xs.
ValueOfRank(xs, r) ==
    CHOOSE v \in {xs[i] : i \in 1..Len(xs)} :
        /\ Cardinality({i \in 1..Len(xs) : xs[i] < v}) < r
        /\ r <= Cardinality({i \in 1..Len(xs) : xs[i] <= v})

\* m is the median of the numbers xs: the middle one, or the mean of the two
\* middle ones; no number is the median of no numbers.
IsMedianOf(m, xs) ==
    /\ Len(xs) > 0
    /\ 2 * m = ValueOfRank(xs, ((Len(xs) - 1) \div 2) + 1)
                   + ValueOfRank(xs, (Len(xs) \div 2) + 1)

\* after is the column before with every missing cell imputed.
Imputed(before, after, numeric) ==
    \A i \in 1..Len(before) :
        IF ~IsNull(before[i]) THEN after[i] = before[i]
        ELSE IF numeric
             THEN after[i].t = "num" /\ IsMedianOf(after[i].n, PresentValues(before))
             ELSE after[i] = Unknown

\* The EV column after the type conversions of lines 87-97.
ConvertedEV(col) == IF LooksNumeric(col) THEN ToNumericColumn(col) ELSE col

\* C16 (as claimed): cleaning replaces every missing value of a numeric column,
\* the values that coercion made missing included, by the median of the
\* column's non-missing values, and every missing value of another column by
\* "Unknown"; a value that is not missing is left as it is.
C16_MissingValuesImputed ==
    /\ EVLoaded =>
           LET col == Column(Rows(ev_df), "c1")
           IN  Imputed(ConvertedEV(col), Column(Rows(ev_df_clean), "c1"),
                       LooksNumeric(col) \/ NumericDtype(col))
    /\ NutritionLoaded =>
           \A c \in {"low_confidence_limit", "high_confidence_limit"} :
               Imputed(ToNumericColumn(Column(Rows(nutrition_df), c)),
                       Column(Rows(nutrition_df_clean), c), TRUE)

\* C19: a cleaning run over raw collections that did not change since the
\* cleaning run before it gives the records that run stored, _processed_at
\* aside: the frame it is about to store is, but for that stamp, what the
\* cleaned collection holds from the run before.
C19_CleaningTwiceGivesSameRecords ==
    /\ (pc["clean"] = "ev_clear" /\ Len(ev_data_cleaned) > 0) =>
           ev_data_cleaned = Aged(ev_df_clean, "_processed_at")
    /\ (pc["clean"] = "nut_clear" /\ Len(nutrition_data_cleaned) > 0) =>
           nutrition_data_cleaned = Aged(nutrition_df_clean, "_processed_at")

\* The second run over a nutrition collection with a missing and a non-numeric
\* value, about to replace what the first run stored.
C19_Witness ==
    /\ pc["clean"] = "nut_clear"
    /\ Len(nutrition_data_cleaned) >= 2
    /\ \A i \in 1..Len(nutrition_data_cleaned) :
          nutrition_data_cleaned[i]._processed_at = Earlier
    /\ \E i \in 1..Len(nutrition_df) : IsNull(nutrition_df[i].row.low_confidence_limit)
    /\ \E i \in 1..Len(nutrition_df) :
          nutrition_df[i].row.high_confidence_limit = Str(<<"x">>)
    /\ nutrition_data_cleaned = Aged(nutrition_df_clean, "_processed_at")

\* The cleaning run reads the raw EV collection and goes on.
EVLoadStep == CleanEVLoad /\ pc'["clean"] = "ev_clear"

\* C18: nothing keeps the cleaning run from reading a raw collection while an
\* ingestion run is rewriting it, and nothing tells it that it did: wherever
\* the ingestion run is, a cleaning run that is at its read of the EV
\* collection can take it, and the frame a cleaning run goes on with is the
\* cleaned form of whatever it read.
C18_ReadNeverWaitsForIngestion ==
    /\ pc["clean"] = "ev_load" => ENABLED EVLoadStep
    /\ EVLoaded => ev_df_clean = CleanEV(ev_df, Now)
    /\ NutritionLoaded => nutrition_df_clean = CleanNutrition(nutrition_df, Now)

\* The cleaning run has read the EV collection after the ingestion run cleared
\* it and before it inserted its records: no record was loaded, the collection
\* holds the new metadata document alone, the source is not empty.
C18_Witness ==
    /\ pc["clean"] = "ev_clear"
    /\ pc["ingest"] = "ev_insert"
    /\ Len(remote_ev) >= 1
    /\ Len(ev_df) = 0
    /\ Len(MetadataDocs(ev_data_raw)) = 1
    /\ Len(FindNotMetadata(ev_data_raw)) = 0
    /\ WrittenByThisRun(ev_data_raw)

\* C21: cleaning neither drops nor adds rows: once a cleaning run has stored a
\* dataset, and so after a completed run, the cleaned collection holds as many
\* records as the run read non-metadata documents from the raw collection,
\* which is as many as the raw collection holds.
C21_CleaningKeepsRowCount ==
    /\ EVStored =>
           /\ Len(ev_data_cleaned) = Len(ev_df)
           /\ Len(ev_df) = Len(FindNotMetadata(ev_data_raw))
    /\ NutritionStored =>
           /\ Len(nutrition_data_cleaned) = Len(nutrition_df)
           /\ Len(nutrition_df) = Len(FindNotMetadata(nutrition_data_raw))

\* A completed run over an EV collection of several records, one with a missing
\* value and one with a value that is no number.
C21_Witness ==
    /\ pc["clean"] = "done"
    /\ Len(ev_df) >= 3
    /\ \E i \in 1..Len(ev_df) : IsNull(ev_df[i].row.c1)
    /\ \E i \in 1..Len(ev_df) : ev_df[i].row.c1 = Str(<<"a", "b">>)
    /\ Len(ev_data_cleaned) = Len(ev_df)
    /\ Len(nutrition_data_cleaned) = Len(nutrition_df)

====
